---- MODULE Spec2Model ----
(***************************************************************************)
(* State-machine model of the storage layer of the movie application:      *)
(* StorageService over AsyncStorage (src/unnamed/part_000), StorageService *)
(* over the in-memory session maps (src/unnamed/part_001) and the part of  *)
(* MovieService they call (src/unnamed/part_002).                          *)
(*                                                                         *)
(* A movie is represented by its id.  Every await of a storage access or   *)
(* of a remote request is one step of a call, so that calls can overlap    *)
(* exactly where the code can be suspended.                                *)
(***************************************************************************)
EXTENDS Integers, Sequences, FiniteSets, TLC

\* ------------------------------------------------------------------ bounds
MaxId == 2
MaxCalls == 3
MaxConcCalls == 2
MaxTime == 6
MaxInvocations == 3

\* the delay of a debounced function, in ticks of 100 ms (the screens pass 300)
Delay == 3

Ids == 1..MaxId
\* ratings in tenths: 0, 7.5 and 9.0
Ratings == {0, 75, 90}
\* pages the remote account can answer with (duplicate-free lists of movies)
RemoteResults == {<<>>, <<MaxId, 1>>}
\* what becomes of a request: no bearer token configured (nothing is sent), a
\* decoded 2xx answer, a non-2xx answer, fetch throwing, response.json() throwing
HttpOutcomes == {"ok", "http_error", "network_error", "no_token", "bad_json"}
HttpResponses ==
    [out : {"ok"}, results : RemoteResults]
        \cup [out : HttpOutcomes \ {"ok"}, results : {<<>>}]
\* the endpoints MovieService requests, by the part of the path that
\* getMockData looks at
Endpoints ==
    {"popular", "trending", "top_rated", "now_playing", "upcoming", "search",
     "genres", "credits", "details", "reviews", "videos", "account"}

Slots == {1, 2}
ListNames == {"favorites", "watchlist", "watched"}
AsyncListNames == {"favorites", "watchlist"}

\* ------------------------------------------------------------ JSON values
\* JavaScript undefined (a missing property) and null (no timestamp)
Undefined == -1
NoTimestamp == 0

Null == [k |-> "null", v |-> <<>>]
\* a stored text that is not valid JSON
Garbage == [k |-> "text", v |-> <<>>]
Arr(s) == [k |-> "arr", v |-> s]
Obj(m) == [k |-> "map", v |-> m]
EmptyMap == [i \in Ids |-> Undefined]

MovieElem(i) == [t |-> "movie", n |-> i]
NumElem(x) == [t |-> "num", n |-> x]
NullElem == [t |-> "null", n |-> 0]

Range(s) == {s[j] : j \in 1..Len(s)}
Count(s, x) == Cardinality({j \in 1..Len(s) : s[j] = x})
Filter(s, x) == SelectSeq(s, LAMBDA e : e # x)

\* ------------------------------------------------------- MovieService
\* getMockData: the mock object of the endpoint's category (a page of
\* movies, the genres, the credits), {results: []} when it is of no category
getMockData(endpoint) ==
    IF endpoint \in {"popular", "trending", "top_rated", "now_playing", "upcoming"}
    THEN [shape |-> "page", results |-> <<>>]
    ELSE IF endpoint = "search" THEN [shape |-> "page", results |-> <<>>]
    ELSE IF endpoint = "genres" THEN [shape |-> "genres", results |-> <<>>]
    ELSE IF endpoint = "credits" THEN [shape |-> "credits", results |-> <<>>]
    ELSE [shape |-> "results", results |-> <<>>]

fetchFromAPI_rethrows(endpoint, resp) ==
    IF resp.out = "ok"
    THEN [threw |-> FALSE, sent |-> TRUE, mock |-> "none", results |-> resp.results]
    ELSE [threw |-> TRUE, sent |-> resp.out # "no_token", mock |-> "none", results |-> <<>>]

\* fetchFromAPI: whatever is thrown inside the try (no token, fetch, a non-ok
\* response, response.json()) is caught and answered with getMockData(endpoint)
fetchFromAPI(endpoint, resp) ==
    IF resp.out = "ok"
    THEN [threw |-> FALSE, sent |-> TRUE, mock |-> "none", results |-> resp.results]
    ELSE [threw |-> FALSE, sent |-> resp.out # "no_token",
          mock |-> getMockData(endpoint).shape,
          results |-> getMockData(endpoint).results]

\* ------------------------------------------------------- StorageService
\* the try body of every getter: await getItem(key), then JSON.parse of the
\* text unless it is null; either of the two can throw
tryRead(item, ok) ==
    IF ~ok THEN "threw"
    ELSE IF item.k = "null" THEN "missing"
    ELSE IF item.k = "text" THEN "threw"
    ELSE "parsed"

readSettles_rethrows(tried) ==
    IF tried = "threw" THEN "rejected" ELSE "resolved"

\* the catch of every getter returns the default: the getter resolves whether
\* its try body threw or not
readSettles(tried) ==
    IF tried = "threw" THEN "resolved" ELSE "resolved"

\* getFavorites / getWatchlist: the array read from the key, [] when the key
\* is missing or the read failed
getItems(item, ok) ==
    IF tryRead(item, ok) = "parsed" THEN item.v ELSE <<>>

\* getRatings: the parsed value of the ratings key, {} when missing or failed
getRatings(item, ok) ==
    IF tryRead(item, ok) = "parsed" THEN item ELSE Obj(EmptyMap)

\* a[i] = x on a JavaScript array (0-based), as JSON.stringify then writes it:
\* the holes of an extended array become null
SetIndex(a, i, x) ==
    IF i < Len(a)
    THEN [a EXCEPT ![i + 1] = x]
    ELSE [j \in 1..(i + 1) |->
            IF j <= Len(a) THEN a[j] ELSE IF j = i + 1 THEN x ELSE NullElem]

assignRating_keepsFirst(r, id, val) ==
    IF r.k = "map"
    THEN (IF r.v[id] = Undefined THEN Obj([r.v EXCEPT ![id] = val]) ELSE r)
    ELSE Arr(SetIndex(r.v, id, NumElem(val)))

\* ratings[movieId] = rating / sessionStorage.ratings.set(movieId, rating)
assignRating(r, id, val) ==
    IF r.k = "map"
    THEN Obj([r.v EXCEPT ![id] = val])
    ELSE Arr(SetIndex(r.v, id, NumElem(val)))

pushItem_skips(items, id) == items

\* favorites.push(movie)
pushItem(items, id) == Append(items, id)

isAlready_never(items, id) == FALSE

\* favorites.some(fav => fav.id === movie.id) / sessionStorage.favorites.has(id)
isAlready(items, id) == id \in Range(items)

filterItems_keepsAll(items, id) == items

filterItems_dropsAll(items, id) == <<>>

\* removeFromFavorites / removeFromWatchlist: filter(movie.id !== movieId)
filterItems(items, id) == Filter(items, id)

setSyncStatus_keepsLast(synced, now, old) ==
    [k |-> "status",
     v |-> [lastSync |-> IF synced THEN now
                         ELSE IF old.k = "status" THEN old.v.lastSync ELSE NoTimestamp,
            synced |-> synced]]

\* setSyncStatus: {lastSync: synced ? now : null, synced}
setSyncStatus(synced, now, old) ==
    [k |-> "status",
     v |-> [lastSync |-> IF synced THEN now ELSE NoTimestamp, synced |-> synced]]

deleteRating_clearsAll(r, id) == Obj(EmptyMap)

\* removeRating: if (ratings.has(movieId)) ratings.delete(movieId)
deleteRating(r, id) ==
    IF r.v[id] # Undefined THEN Obj([r.v EXCEPT ![id] = Undefined]) ELSE r

getMovieRating_nullish(item, id, ok) ==
    LET r == getRatings(item, ok) IN
    IF r.k = "map"
    THEN (IF r.v[id] = Undefined THEN NullElem ELSE NumElem(r.v[id]))
    ELSE IF id < Len(r.v) THEN r.v[id + 1] ELSE NullElem

\* getMovieRating / getRating: ratings[movieId] || null
getMovieRating(item, id, ok) ==
    LET r == getRatings(item, ok) IN
    IF r.k = "map"
    THEN (IF r.v[id] \in {Undefined, 0} THEN NullElem ELSE NumElem(r.v[id]))
    ELSE IF id < Len(r.v)
         THEN (IF r.v[id + 1] = NumElem(0) THEN NullElem ELSE r.v[id + 1])
         ELSE NullElem

\* getSyncStatus
getSyncStatus(item, ok) ==
    IF tryRead(item, ok) = "parsed" THEN item.v
    ELSE [lastSync |-> NoTimestamp, synced |-> FALSE]

\* the try/catch around the remote mirror call of add, remove and rateMovie:
\* the outcome of the request never reaches the caller
mirrorSettles_propagates(resp) ==
    IF resp.out = "ok" THEN "resolved" ELSE "rejected"

mirrorSettles(resp) ==
    IF fetchFromAPI("account", resp).threw THEN "resolved" ELSE "resolved"

\* ------------------------------------------------------------------ state
Keys == {"favorites", "watchlist", "watched", "ratings", "sync"}

VARIABLES
    impl,      \* which StorageService is linked: "async" (part_000) or "session" (part_001)
    store,     \* AsyncStorage (async) or the sessionStorage maps (session), by key
    clock,     \* the time new Date() reads: one tick per call made
    calls,     \* per slot: the call in flight, its position and its locals
    lastAdd,   \* history: the add that returned last, if the last return was an add
    ui         \* the screens and timers above the services (none while a service is studied)

vars == <<impl, store, clock, calls, lastAdd, ui>>
services == <<impl, store, clock, calls, lastAdd>>

NoUi == [screen |-> "none"]

EmptyStore == [k \in Keys |-> Null]
SessionStore ==
    [k \in Keys |->
        IF k \in ListNames THEN Arr(<<>>)
        ELSE IF k = "ratings" THEN Obj(EmptyMap) ELSE Null]

NoAdd == [key |-> "none", id |-> 0, pre |-> {}]

Idle ==
    [op |-> "none", key |-> "favorites", id |-> 1, val |-> 0, pc |-> "idle",
     snap |-> <<>>, rsnap |-> Null,
     tmdb |-> [favorites |-> <<>>, watchlist |-> <<>>],
     ret |-> "none", retval |-> FALSE, pre |-> EmptyStore,
     fault |-> FALSE, failedKeys |-> {}, remoteFailed |-> FALSE,
     overwrote |-> {}, caught |-> FALSE, mirrored |-> FALSE, wrote |-> FALSE, overlapped |-> FALSE]

Active(c) == calls[c].pc \notin {"idle", "done"}
Done(c) == calls[c].pc = "done"

Ops == [async |-> {"add", "remove", "toggle", "rate", "sync", "clear"},
        session |-> {"add", "remove", "toggle", "rate", "unrate", "clear"}]

FirstPc ==
    [async |-> [add |-> "add_read", remove |-> "rm_read", toggle |-> "tg_read",
                rate |-> "rate_read", sync |-> "sync_fetch", clear |-> "clear",
                unrate |-> "idle"],
     session |-> [add |-> "s_add", remove |-> "s_remove", toggle |-> "tg_read",
                  rate |-> "s_rate", unrate |-> "s_unrate", clear |-> "s_clear",
                  sync |-> "idle"]]

\* the arguments each operation takes (the others are held at a fixed value)
ArgsOk(op, key, id, val) ==
    /\ key \in (IF op \in {"add", "remove"}
                THEN (IF impl = "async" THEN AsyncListNames ELSE ListNames)
                ELSE {"favorites"})
    /\ op \in {"sync", "clear"} => id = 1
    /\ op # "rate" => val = 0

Init ==
    /\ impl \in {"async", "session"}
    /\ store = IF impl = "async" THEN EmptyStore ELSE SessionStore
    /\ clock = 0
    /\ calls = [c \in Slots |-> Idle]
    /\ lastAdd = NoAdd
    /\ ui = NoUi

\* a method of StorageService is called: it runs up to its first await
InvokeOf(c, ops, budget) ==
    /\ calls[c].pc = "idle"
    /\ \A d \in Slots : d < c => calls[d].pc # "idle"
    /\ \E op \in ops, key \in ListNames, id \in Ids, val \in Ratings :
        /\ ArgsOk(op, key, id, val)
        /\ clock < budget
        /\ clock' = clock + 1
        /\ calls' = [d \in Slots |->
                IF d = c
                THEN [Idle EXCEPT !.op = op, !.key = key, !.id = id, !.val = val,
                                  !.pc = FirstPc[impl][op], !.pre = store,
                                  !.overlapped = \E e \in Slots \ {c} : Active(e)]
                ELSE IF Active(d) THEN [calls[d] EXCEPT !.overlapped = TRUE]
                ELSE calls[d]]
    /\ UNCHANGED <<ui, impl, store, lastAdd>>

Invoke(c) == InvokeOf(c, Ops[impl], MaxCalls)

\* only the operations on the lists
ListOps == {"add", "remove", "toggle", "clear"}
InvokeListOp(c) == InvokeOf(c, ListOps, MaxConcCalls)

Settle(me, ret) == [me EXCEPT !.pc = "done", !.ret = ret]

setItem_oneListKey(st, key, value) ==
    IF key \in AsyncListNames
    THEN [st EXCEPT !["favorites"] = value, !["watchlist"] = value]
    ELSE [st EXCEPT ![key] = value]

\* AsyncStorage.setItem(STORAGE_KEYS.X, text): the value of that key alone
setItem(st, key, value) == [st EXCEPT ![key] = value]

\* addToFavorites / addToWatchlist, lines 89-93: read the list, test membership
AddRead(c) ==
    LET me == calls[c] IN
    /\ me.pc = "add_read"
    /\ \E ok \in BOOLEAN :
        LET items == getItems(store[me.key], ok)
            seen == [me EXCEPT !.fault = @ \/ ~ok] IN
        calls' = [calls EXCEPT ![c] =
            IF isAlready(items, me.id)
            THEN Settle([seen EXCEPT !.snap = items], "resolved")
            ELSE [seen EXCEPT !.snap = pushItem(items, me.id), !.pc = "write"]]
    /\ UNCHANGED <<ui, impl, store, clock, lastAdd>>

\* removeFromFavorites / removeFromWatchlist, lines 115-116
RemoveRead(c) ==
    LET me == calls[c] IN
    /\ me.pc = "rm_read"
    /\ \E ok \in BOOLEAN :
        calls' = [calls EXCEPT ![c] =
            [me EXCEPT !.snap = filterItems(getItems(store[me.key], ok), me.id),
                       !.pc = "write", !.fault = @ \/ ~ok]]
    /\ UNCHANGED <<ui, impl, store, clock, lastAdd>>

\* AsyncStorage.setItem(key, JSON.stringify(list)) of add and remove
WriteItems(c) ==
    LET me == calls[c] IN
    /\ me.pc = "write"
    /\ \E ok \in BOOLEAN :
        IF ok
        THEN /\ store' = setItem(store, me.key, Arr(me.snap))
             /\ calls' = [calls EXCEPT ![c] = [me EXCEPT !.pc = "mirror", !.wrote = TRUE]]
        ELSE /\ store' = store
             /\ calls' = [calls EXCEPT ![c] = Settle([me EXCEPT !.fault = TRUE], "rejected")]
    /\ UNCHANGED <<ui, impl, clock, lastAdd>>

\* the awaited MovieService call that mirrors add, remove and rateMovie
Mirror(c) ==
    LET me == calls[c] IN
    /\ me.pc = "mirror"
    /\ \E out \in HttpOutcomes :
        LET resp == [out |-> out, results |-> <<>>] IN
        calls' = [calls EXCEPT ![c] =
            Settle([me EXCEPT !.mirrored = TRUE, !.remoteFailed = (out # "ok")],
                   mirrorSettles(resp))]
    /\ UNCHANGED <<ui, impl, store, clock, lastAdd>>

\* toggleFavorite: await isFavorite(movie.id), then remove or add
ToggleRead(c) ==
    LET me == calls[c] IN
    /\ me.pc = "tg_read"
    /\ \E ok \in (IF impl = "async" THEN BOOLEAN ELSE {TRUE}) :
        LET member == isAlready(getItems(store["favorites"], ok), me.id) IN
        calls' = [calls EXCEPT ![c] =
            [me EXCEPT !.retval = ~member, !.fault = @ \/ ~ok,
                       !.pc = IF impl = "async"
                              THEN (IF member THEN "rm_read" ELSE "add_read")
                              ELSE (IF member THEN "s_remove" ELSE "s_add")]]
    /\ UNCHANGED <<ui, impl, store, clock, lastAdd>>

\* rateMovie, lines 274-275
RateRead(c) ==
    LET me == calls[c] IN
    /\ me.pc = "rate_read"
    /\ \E ok \in BOOLEAN :
        calls' = [calls EXCEPT ![c] =
            [me EXCEPT !.rsnap = assignRating(getRatings(store["ratings"], ok), me.id, me.val),
                       !.pc = "rate_write", !.fault = @ \/ ~ok]]
    /\ UNCHANGED <<ui, impl, store, clock, lastAdd>>

\* rateMovie, line 276
RateWrite(c) ==
    LET me == calls[c] IN
    /\ me.pc = "rate_write"
    /\ \E ok \in BOOLEAN :
        IF ok
        THEN /\ store' = setItem(store, "ratings", me.rsnap)
             /\ calls' = [calls EXCEPT ![c] = [me EXCEPT !.pc = "mirror", !.wrote = TRUE]]
        ELSE /\ store' = store
             /\ calls' = [calls EXCEPT ![c] = Settle([me EXCEPT !.fault = TRUE], "rejected")]
    /\ UNCHANGED <<ui, impl, clock, lastAdd>>

\* syncWithTMDB, lines 31, 35 and 39: the three account fetches
SyncFetch(c) ==
    LET me == calls[c] IN
    /\ me.pc = "sync_fetch"
    /\ \E resp \in HttpResponses :
        LET got == fetchFromAPI("account", resp) IN
        calls' = [calls EXCEPT ![c] =
            IF got.threw
            THEN [me EXCEPT !.pc = "sync_failed", !.remoteFailed = TRUE]
            ELSE [me EXCEPT !.pc = "sync_write", !.snap = got.results,
                            !.remoteFailed = @ \/ resp.out # "ok",
                            !.tmdb = IF me.key \in {"favorites", "watchlist"}
                                     THEN [@ EXCEPT ![me.key] = got.results] ELSE @]]
    /\ UNCHANGED <<ui, impl, store, clock, lastAdd>>

SyncValue_merges(key, results, old) ==
    IF key = "ratings"
    THEN Arr([j \in 1..Len(results) |-> MovieElem(results[j])])
    ELSE Arr(getItems(old, TRUE)
             \o SelectSeq(results, LAMBDA e : e \notin Range(getItems(old, TRUE))))

\* what setItem(key, JSON.stringify(results)) stores: the fetched results and
\* nothing of the old value; the ratings key receives the array of rated movies
SyncValue(key, results, old) ==
    IF key = "ratings"
    THEN Arr([j \in 1..Len(results) |-> MovieElem(results[j])])
    ELSE Arr(results)

SyncNextKey == [favorites |-> "watchlist", watchlist |-> "ratings", ratings |-> "ratings"]

\* history: the adds to the list of a key that had completed, their write
\* made, when the sync in slot c writes that key
CompletedAdds(c, key) ==
    {d \in Slots \ {c} :
        Done(d) /\ calls[d].op = "add" /\ calls[d].key = key /\ calls[d].wrote}

\* syncWithTMDB, lines 32, 36 and 40: each result overwrites its key
SyncWrite(c) ==
    LET me == calls[c] IN
    /\ me.pc = "sync_write"
    /\ \E ok \in BOOLEAN :
        IF ok
        THEN /\ store' = [store EXCEPT ![me.key] = SyncValue(me.key, me.snap, store[me.key])]
             /\ calls' = [calls EXCEPT ![c] =
                    [me EXCEPT !.wrote = TRUE, !.key = SyncNextKey[me.key],
                               !.overwrote = @ \cup CompletedAdds(c, me.key),
                               !.pc = IF me.key = "ratings" THEN "sync_ok" ELSE "sync_fetch"]]
        ELSE /\ store' = store
             /\ calls' = [calls EXCEPT ![c] = [me EXCEPT !.fault = TRUE, !.pc = "sync_failed"]]
    /\ UNCHANGED <<ui, impl, clock, lastAdd>>

\* syncWithTMDB, line 43: setSyncStatus(true)
SyncSucceeded(c) ==
    LET me == calls[c] IN
    /\ me.pc = "sync_ok"
    /\ \E ok \in BOOLEAN :
        IF ok
        THEN /\ store' = [store EXCEPT !["sync"] = setSyncStatus(TRUE, clock, store["sync"])]
             /\ calls' = [calls EXCEPT ![c] = Settle(me, "resolved")]
        ELSE /\ store' = store
             /\ calls' = [calls EXCEPT ![c] = [me EXCEPT !.fault = TRUE, !.pc = "sync_failed"]]
    /\ UNCHANGED <<ui, impl, clock, lastAdd>>

\* syncWithTMDB, lines 44-50: the inner catch stores setSyncStatus(false); the
\* outer catch swallows a failure of that write
SyncFailed(c) ==
    LET me == calls[c] IN
    /\ me.pc = "sync_failed"
    /\ \E ok \in BOOLEAN :
        /\ store' = IF ok
                    THEN [store EXCEPT !["sync"] = setSyncStatus(FALSE, clock, store["sync"])]
                    ELSE store
        /\ calls' = [calls EXCEPT ![c] =
                Settle([me EXCEPT !.caught = TRUE, !.retval = ok, !.fault = @ \/ ~ok],
                       "resolved")]
    /\ UNCHANGED <<ui, impl, clock, lastAdd>>

AsyncClearKeys_withoutRatings == {"favorites", "watchlist", "sync"}

\* clearAllData (AsyncStorage): the keys removeItem is called for
AsyncClearKeys == {"favorites", "watchlist", "ratings", "sync"}

clearedStore_allOrNothing(old, failed) ==
    IF failed = {}
    THEN [k \in Keys |-> IF k \in AsyncClearKeys THEN Null ELSE old[k]]
    ELSE old

\* the removeItem calls handed to Promise.all: all are started, each removes
\* its key unless it fails, whatever becomes of the others
clearedStore(old, failed) ==
    [k \in Keys |-> IF k \in AsyncClearKeys \ failed THEN Null ELSE old[k]]

\* clearAllData (AsyncStorage): Promise.all of the four removeItem calls, each
\* of which succeeds or fails on its own; the catch rethrows
ClearAll(c) ==
    LET me == calls[c] IN
    /\ me.pc = "clear"
    /\ \E failed \in SUBSET AsyncClearKeys :
        /\ store' = clearedStore(store, failed)
        /\ calls' = [calls EXCEPT ![c] =
                Settle([me EXCEPT !.fault = (failed # {}), !.failedKeys = failed,
                                  !.wrote = TRUE],
                       IF failed = {} THEN "resolved" ELSE "rejected")]
    /\ UNCHANGED <<ui, impl, clock, lastAdd>>

\* ---------------------------------------------- session-map StorageService
\* addToFavorites / addToWatchlist / addToWatched: set unless has(movie.id)
SessionAdd(c) ==
    LET me == calls[c] IN
    /\ me.pc = "s_add"
    /\ store' = [store EXCEPT ![me.key] =
            IF isAlready(@.v, me.id) THEN @ ELSE Arr(Append(@.v, me.id))]
    /\ calls' = [calls EXCEPT ![c] =
            Settle([me EXCEPT !.wrote = ~isAlready(store[me.key].v, me.id)], "resolved")]
    /\ UNCHANGED <<ui, impl, clock, lastAdd>>

\* removeFromFavorites / removeFromWatchlist / removeFromWatched: delete if has
SessionRemove(c) ==
    LET me == calls[c] IN
    /\ me.pc = "s_remove"
    /\ store' = [store EXCEPT ![me.key] =
            IF isAlready(@.v, me.id) THEN Arr(filterItems(@.v, me.id)) ELSE @]
    /\ calls' = [calls EXCEPT ![c] =
            Settle([me EXCEPT !.wrote = isAlready(store[me.key].v, me.id)], "resolved")]
    /\ UNCHANGED <<ui, impl, clock, lastAdd>>

\* setRating: sessionStorage.ratings.set(movieId, rating)
SessionSetRating(c) ==
    LET me == calls[c] IN
    /\ me.pc = "s_rate"
    /\ store' = [store EXCEPT !["ratings"] = assignRating(@, me.id, me.val)]
    /\ calls' = [calls EXCEPT ![c] = Settle([me EXCEPT !.wrote = TRUE], "resolved")]
    /\ UNCHANGED <<ui, impl, clock, lastAdd>>

\* removeRating: delete if has
SessionRemoveRating(c) ==
    LET me == calls[c] IN
    /\ me.pc = "s_unrate"
    /\ store' = [store EXCEPT !["ratings"] = deleteRating(@, me.id)]
    /\ calls' = [calls EXCEPT ![c] = Settle(me, "resolved")]
    /\ UNCHANGED <<ui, impl, clock, lastAdd>>

getAnnotated_crossSet(key, st) ==
    [j \in 1..Len(st[key].v) |->
        [id |-> st[key].v[j],
         isFavorite |-> isAlready(st["favorites"].v, st[key].v[j]),
         isInWatchlist |-> isAlready(st["watchlist"].v, st[key].v[j]),
         isWatched |-> isAlready(st["watched"].v, st[key].v[j])]]

\* getFavorites / getWatchlist / getWatched (session): the values of the map,
\* each spread into an object whose three flags are then set to constants
getAnnotated(key, st) ==
    [j \in 1..Len(st[key].v) |->
        [id |-> st[key].v[j],
         isFavorite |-> (key = "favorites"),
         isInWatchlist |-> (key = "watchlist"),
         isWatched |-> (key = "watched")]]

\* clearAllData (session): the four maps are cleared, then the AsyncStorage
\* removals are awaited and may fail
SessionClear(c) ==
    LET me == calls[c] IN
    /\ me.pc = "s_clear"
    /\ \E ok \in BOOLEAN :
        /\ store' = SessionStore
        /\ calls' = [calls EXCEPT ![c] =
                Settle([me EXCEPT !.fault = ~ok, !.wrote = TRUE],
                       IF ok THEN "resolved" ELSE "rejected")]
    /\ UNCHANGED <<ui, impl, clock, lastAdd>>

\* the call's promise has settled and its caller has seen the result
Return(c) ==
    LET me == calls[c] IN
    /\ me.pc = "done"
    /\ calls' = [calls EXCEPT ![c] = Idle]
    /\ lastAdd' =
        IF me.op = "add" /\ me.ret = "resolved" /\ ~me.fault /\ ~me.overlapped
        THEN [key |-> me.key, id |-> me.id, pre |-> Range(getItems(me.pre[me.key], TRUE))]
        ELSE NoAdd
    /\ UNCHANGED <<ui, impl, store, clock>>

Step(c) ==
    \/ Invoke(c)
    \/ AddRead(c)
    \/ RemoveRead(c)
    \/ WriteItems(c)
    \/ Mirror(c)
    \/ ToggleRead(c)
    \/ RateRead(c)
    \/ RateWrite(c)
    \/ SyncFetch(c)
    \/ SyncWrite(c)
    \/ SyncSucceeded(c)
    \/ SyncFailed(c)
    \/ ClearAll(c)
    \/ SessionAdd(c)
    \/ SessionRemove(c)
    \/ SessionSetRating(c)
    \/ SessionRemoveRating(c)
    \/ SessionClear(c)
    \/ Return(c)

\* calls made one after the other: a call starts when the previous one returned
Next == Step(1)
Spec == Init /\ [][Next]_vars

StepConc(c) ==
    \/ InvokeListOp(c)
    \/ AddRead(c)
    \/ RemoveRead(c)
    \/ WriteItems(c)
    \/ Mirror(c)
    \/ ToggleRead(c)
    \/ ClearAll(c)
    \/ SessionAdd(c)
    \/ SessionRemove(c)
    \/ SessionClear(c)
    \/ Return(c)

\* overlapping calls on the lists: the steps of two calls interleave
NextConc == \E c \in Slots : StepConc(c)
SpecConc == Init /\ [][NextConc]_vars

\* ------------------------------------- overlapping calls on stored lists
\* the favorites an earlier session left under the key
InitRace ==
    /\ impl = "async"
    /\ \E f \in {Null, Arr(<<1>>), Arr(<<MaxId, 1>>)} :
        store = [EmptyStore EXCEPT !["favorites"] = f]
    /\ clock = 0
    /\ calls = [c \in Slots |-> Idle]
    /\ lastAdd = NoAdd
    /\ ui = NoUi

RaceOps == {"add", "toggle", "sync"}
\* each slot makes one call
InvokeRace(c) == InvokeOf(c, RaceOps, Cardinality(Slots))

StepRace(c) ==
    \/ InvokeRace(c)
    \/ AddRead(c)
    \/ RemoveRead(c)
    \/ WriteItems(c)
    \/ Mirror(c)
    \/ ToggleRead(c)
    \/ SyncFetch(c)
    \/ SyncWrite(c)
    \/ SyncSucceeded(c)
    \/ SyncFailed(c)
    \/ Return(c)

\* a user's add or toggle and the startup sync overlap, on lists that may
\* already hold movies
NextRace == \E c \in Slots : StepRace(c)
SpecRace == InitRace /\ [][NextRace]_vars

\* ------------------------------------------------ the getters on their own
\* what a getter of the AsyncStorage variant can find under its key: nothing,
\* a text that does not parse, or a value written by the service
StoredValues ==
    [favorites |-> {Null, Garbage, Arr(<<>>), Arr(<<1>>), Arr(<<MaxId, 1>>)},
     watchlist |-> {Null, Garbage, Arr(<<>>), Arr(<<1>>), Arr(<<MaxId, 1>>)},
     ratings |-> {Null, Garbage, Obj(EmptyMap), Obj([EmptyMap EXCEPT ![1] = 75]),
                  Arr(<<MovieElem(1)>>)},
     sync |-> {Null, Garbage, setSyncStatus(FALSE, 0, Null), setSyncStatus(TRUE, 1, Null)}]

InitRead ==
    /\ impl = "async"
    /\ \E f \in StoredValues["favorites"], w \in StoredValues["watchlist"],
          r \in StoredValues["ratings"], s \in StoredValues["sync"] :
        store = [EmptyStore EXCEPT !["favorites"] = f, !["watchlist"] = w,
                                   !["ratings"] = r, !["sync"] = s]
    /\ clock = 0
    /\ calls = [c \in Slots |-> Idle]
    /\ lastAdd = NoAdd
    /\ ui = NoUi

\* getFavorites(), getWatchlist(), getRatings() or getSyncStatus() is called
InvokeGet(c) ==
    /\ calls[c].pc = "idle"
    /\ clock < MaxCalls
    /\ clock' = clock + 1
    /\ \E key \in AsyncClearKeys :
        calls' = [calls EXCEPT ![c] =
            [Idle EXCEPT !.op = "get", !.key = key, !.pc = "get", !.pre = store]]
    /\ UNCHANGED <<ui, impl, store, lastAdd>>

\* the value the getter of a key resolves with
getValue(key, item, ok) ==
    IF key \in AsyncListNames THEN Arr(getItems(item, ok))
    ELSE IF key = "ratings" THEN getRatings(item, ok)
    ELSE [k |-> "status", v |-> getSyncStatus(item, ok)]

\* the getter runs: the read succeeds or fails, the text parses or not
Get(c) ==
    LET me == calls[c] IN
    /\ me.pc = "get"
    /\ \E ok \in BOOLEAN :
        calls' = [calls EXCEPT ![c] =
            Settle([me EXCEPT !.rsnap = getValue(me.key, store[me.key], ok),
                              !.fault = ~ok],
                   readSettles(tryRead(store[me.key], ok)))]
    /\ UNCHANGED <<ui, impl, store, clock, lastAdd>>

NextRead == InvokeGet(1) \/ Get(1) \/ Return(1)
SpecRead == InitRead /\ [][NextRead]_vars

\* -------------------------------------------------- MovieService requests
InitFetch ==
    /\ impl = "async"
    /\ store = EmptyStore
    /\ clock = 0
    /\ calls = [c \in Slots |-> Idle]
    /\ lastAdd = NoAdd
    /\ ui = [screen |-> "fetch", requests |-> 0, endpoint |-> "account",
             resp |-> [out |-> "ok", results |-> <<>>],
             got |-> fetchFromAPI("account", [out |-> "ok", results |-> <<>>])]

\* a method of MovieService requests its endpoint and the request settles
Fetch ==
    /\ ui.screen = "fetch"
    /\ ui.requests < MaxCalls
    /\ \E endpoint \in Endpoints, resp \in HttpResponses :
        ui' = [ui EXCEPT !.requests = @ + 1, !.endpoint = endpoint, !.resp = resp,
                         !.got = fetchFromAPI(endpoint, resp)]
    /\ UNCHANGED services

NextFetch == Fetch
SpecFetch == InitFetch /\ [][NextFetch]_vars

\* ------------------------------------------------------ timers, debounce
\* the arguments a debounced function is invoked with: the search texts
Queries == {"", "a", "ab", "abc"}
NoTimer == 0

\* clearTimeout(timeoutId): the timer of that id, if it is still pending
clearTimeout(timers, id) == {t \in timers : t.id # id}

\* setTimeout(callback, delay): a new pending timer, due delay from now
setTimeout(timers, id, args, now) ==
    timers \cup {[id |-> id, args |-> args, setAt |-> now, due |-> now + Delay]}

debounced_keepsTimer(d, args, now) ==
    [d EXCEPT !.timers = setTimeout(d.timers, d.nextId, args, now),
              !.timeoutId = d.nextId, !.nextId = d.nextId + 1]

\* the function debounce returns: clearTimeout(timeoutId), then
\* timeoutId = setTimeout(() => func.apply(null, args), delay)
debounced(d, args, now) ==
    [d EXCEPT !.timers = setTimeout(clearTimeout(d.timers, d.timeoutId), d.nextId, args, now),
              !.timeoutId = d.nextId, !.nextId = d.nextId + 1]

\* debounce(func, delay): a new closure, whose timeoutId is not set yet
debounce(d) == [d EXCEPT !.timeoutId = NoTimer]

\* a timer whose delay has elapsed; it runs before anything later happens
Due(t) == t.due <= ui.now
NoneDue == \A t \in ui.timers : ~Due(t)
\* timers of one delay fire in the order they were set
FirstDue(t) == Due(t) /\ \A u \in ui.timers : Due(u) => t.id <= u.id

\* one debounced function, invoked again and again
InitDebounce ==
    /\ impl = "async"
    /\ store = EmptyStore
    /\ clock = 0
    /\ calls = [c \in Slots |-> Idle]
    /\ lastAdd = NoAdd
    /\ ui = debounce([screen |-> "debounce", now |-> 0, timers |-> {}, timeoutId |-> NoTimer,
                      nextId |-> 1, invoked |-> 0, lastArgs |-> "", lastAt |-> 0,
                      ran |-> <<>>])

\* the debounced function is invoked; an invocation less than the delay after
\* the previous one continues its burst, a later one starts a new burst
DebouncedCall ==
    /\ ui.screen = "debounce"
    /\ NoneDue
    /\ ui.nextId <= MaxInvocations
    /\ \E args \in Queries :
        LET fresh == ui.invoked = 0 \/ ui.now - ui.lastAt >= Delay
            d == debounced(ui, args, ui.now) IN
        ui' = [d EXCEPT !.invoked = IF fresh THEN 1 ELSE @ + 1,
                        !.ran = IF fresh THEN <<>> ELSE @,
                        !.lastArgs = args, !.lastAt = ui.now]
    /\ UNCHANGED services

\* a pending timer fires: func.apply(null, args)
TimerFires ==
    /\ ui.screen = "debounce"
    /\ \E t \in ui.timers :
        /\ FirstDue(t)
        /\ ui' = [ui EXCEPT !.timers = @ \ {t}, !.ran = Append(@, t.args)]
    /\ UNCHANGED services

\* 100 ms pass with no timer due
Tick ==
    /\ ui.screen # "none"
    /\ NoneDue
    /\ ui.now < MaxTime
    /\ ui' = [ui EXCEPT !.now = @ + 1]
    /\ UNCHANGED services

NextDebounce == DebouncedCall \/ TimerFires \/ Tick
SpecDebounce == InitDebounce /\ [][NextDebounce]_vars

\* ------------------------------------------------------------ SearchScreen
\* query.trim().length of the texts typed
QueryLength == [q \in Queries |-> IF q = "" THEN 0 ELSE IF q = "a" THEN 1
                                  ELSE IF q = "ab" THEN 2 ELSE 3]
\* the movies the remote catalogue finds for a text
Matches == [q \in Queries |-> IF q = "ab" THEN <<MaxId, 1>>
                              ELSE IF q = "abc" THEN <<1>> ELSE <<>>]

\* the screen has just been mounted: searchQuery is '' and the first effect
\* has called the debouncedSearch of the first render
InitSearch ==
    /\ impl = "async"
    /\ store = EmptyStore
    /\ clock = 0
    /\ calls = [c \in Slots |-> Idle]
    /\ lastAdd = NoAdd
    /\ ui = debounced(debounce([screen |-> "search", now |-> 0, timers |-> {},
                                timeoutId |-> NoTimer, nextId |-> 1, isMounted |-> TRUE,
                                searchQuery |-> "", searchResults |-> <<>>,
                                inFlight |-> {}, lastAt |-> 0, searched |-> <<>>]),
                      "", 0)

\* the text changes: setSearchQuery(q) renders the screen again, the render
\* makes debouncedSearch anew (debounce(...) is called in the component's
\* body), and the effect on [searchQuery] invokes that new function
ChangeQuery ==
    /\ ui.screen = "search" /\ ui.isMounted
    /\ NoneDue
    /\ ui.nextId <= MaxInvocations
    /\ \E q \in Queries \ {ui.searchQuery} :
        LET d == debounced(debounce(ui), q, ui.now) IN
        ui' = [d EXCEPT !.searchQuery = q, !.lastAt = ui.now,
                        !.searched = IF ui.now - ui.lastAt >= Delay THEN <<>> ELSE @]
    /\ UNCHANGED services

\* a timer fires and runs the search callback up to its await: a text of fewer
\* than 2 characters empties the results, any other starts searchMovies
SearchTimerFires ==
    /\ ui.screen = "search"
    /\ \E t \in ui.timers :
        /\ FirstDue(t)
        /\ ui' = IF QueryLength[t.args] < 2
                 THEN [ui EXCEPT !.timers = @ \ {t},
                                 !.searchResults = IF ui.isMounted THEN <<>> ELSE @]
                 ELSE [ui EXCEPT !.timers = @ \ {t},
                                 !.inFlight = @ \cup {[id |-> t.id, query |-> t.args]},
                                 !.searched = Append(@, t.args)]
    /\ UNCHANGED services

\* a searchMovies request settles, in any order with the others:
\* if (isMounted.current) setSearchResults(response.results)
SearchResponds ==
    /\ ui.screen = "search"
    /\ \E r \in ui.inFlight, out \in HttpOutcomes :
        LET resp == [out |-> out, results |-> IF out = "ok" THEN Matches[r.query] ELSE <<>>]
            got == fetchFromAPI("search", resp) IN
        ui' = [ui EXCEPT !.inFlight = @ \ {r},
                         !.searchResults = IF ~ui.isMounted THEN @
                                           ELSE IF got.threw THEN <<>> ELSE got.results]
    /\ UNCHANGED services

\* the screen is unmounted: isMounted.current = false
SearchUnmount ==
    /\ ui.screen = "search" /\ ui.isMounted
    /\ ui' = [ui EXCEPT !.isMounted = FALSE]
    /\ UNCHANGED services

NextSearch == ChangeQuery \/ SearchTimerFires \/ SearchResponds \/ SearchUnmount \/ Tick
SpecSearch == InitSearch /\ [][NextSearch]_vars

\* ------------------------------------------------- My List (ProfileScreen)
ListFilters == {"favorites", "watchlist", "watched", "all"}

\* allMovies.filter((movie, index, self) => index === self.findIndex(same id))
uniqueMovies(s) ==
    LET keep == {j \in 1..Len(s) : \A i \in 1..(j - 1) : s[i].id # s[j].id}
        F[n \in 0..Len(s)] ==
            IF n = 0 THEN <<>>
            ELSE IF n \in keep THEN Append(F[n - 1], s[n]) ELSE F[n - 1]
    IN F[Len(s)]

\* the list loadMyList builds for a filter
movieList(filter, st) ==
    IF filter = "all"
    THEN uniqueMovies(getAnnotated("favorites", st) \o getAnnotated("watchlist", st)
                      \o getAnnotated("watched", st))
    ELSE getAnnotated(filter, st)

\* the screen has just been mounted over some session lists: isMounted is
\* true, the filter is favorites and the first effect has called loadMyList
InitProfile ==
    /\ impl = "session"
    /\ \E f \in {<<>>, <<1>>, <<MaxId, 1>>}, w \in {<<>>, <<MaxId>>}, d \in {<<>>, <<1>>} :
        store = [SessionStore EXCEPT !["favorites"] = Arr(f), !["watchlist"] = Arr(w),
                                     !["watched"] = Arr(d)]
    /\ clock = 0
    /\ calls = [c \in Slots |-> Idle]
    /\ lastAdd = NoAdd
    /\ ui = [screen |-> "profile", mounted |-> TRUE, isMounted |-> TRUE,
             activeFilter |-> "favorites", movies |-> <<>>, load |-> "favorites",
             events |-> 0]

\* the user picks another filter: the render runs the cleanup of the previous
\* effect, then the effect, which calls the loadMyList of the new filter
SetFilter ==
    /\ ui.screen = "profile" /\ ui.mounted /\ ui.load = "none"
    /\ ui.events < MaxInvocations
    /\ \E f \in ListFilters \ {ui.activeFilter} :
        ui' = [ui EXCEPT !.activeFilter = f, !.isMounted = FALSE, !.load = f,
                         !.events = @ + 1]
    /\ UNCHANGED services

\* onRefresh / handleListChange: loadMyList() of the current render
Reload ==
    /\ ui.screen = "profile" /\ ui.mounted /\ ui.load = "none"
    /\ ui.events < MaxInvocations
    /\ ui' = [ui EXCEPT !.load = ui.activeFilter, !.events = @ + 1]
    /\ UNCHANGED services

\* loadMyList has its list: if (isMounted.current) setMovies(movieList)
LoadResolves ==
    /\ ui.screen = "profile" /\ ui.load # "none"
    /\ ui' = [ui EXCEPT !.load = "none",
                        !.movies = IF ui.isMounted THEN movieList(ui.load, store) ELSE @]
    /\ UNCHANGED services

\* the screen is unmounted: the cleanup of the effect runs
Unmount ==
    /\ ui.screen = "profile" /\ ui.mounted /\ ui.load = "none"
    /\ ui' = [ui EXCEPT !.mounted = FALSE, !.isMounted = FALSE]
    /\ UNCHANGED services

NextProfile == SetFilter \/ Reload \/ LoadResolves \/ Unmount
SpecProfile == InitProfile /\ [][NextProfile]_vars

\* ------------------------------------------------------------- properties
ItemsOf(key) == getItems(store[key], TRUE)
PreItems(c, key) == getItems(calls[c].pre[key], TRUE)
StatusNow == getSyncStatus(store["sync"], TRUE)
PreStatus(c) == getSyncStatus(calls[c].pre["sync"], TRUE)
\* a call that has settled, with no other call in flight while it ran
Alone(c) == Done(c) /\ ~calls[c].overlapped
\* ... and with every storage access inside it succeeding
Clean(c) == Alone(c) /\ ~calls[c].fault

\* C1: when a remote fetch made by syncWithTMDB fails, the settled sync leaves
\* synced = false and the stored favorites, watchlist and ratings as they were
\* before the attempt.
C1_SyncFailureIsolation ==
    \A c \in Slots :
        (Alone(c) /\ calls[c].op = "sync" /\ calls[c].remoteFailed)
            => /\ StatusNow.synced = FALSE
               /\ \A key \in AsyncListNames : ItemsOf(key) = PreItems(c, key)
               /\ \A id \in Ids :
                      getMovieRating(store["ratings"], id, TRUE)
                        = getMovieRating(calls[c].pre["ratings"], id, TRUE)

\* C2: an add, remove or rateMovie whose local write succeeded and whose remote
\* mirror request failed resolves normally and its written value is still stored.
C2_MirrorFailureKeepsLocal ==
    \A c \in Slots :
        (Alone(c) /\ calls[c].op \in {"add", "remove", "rate"}
                  /\ calls[c].wrote /\ calls[c].mirrored /\ calls[c].remoteFailed)
            => /\ calls[c].ret = "resolved"
               /\ calls[c].op \in {"add", "remove"} => store[calls[c].key] = Arr(calls[c].snap)
               /\ calls[c].op = "add" => isAlready(ItemsOf(calls[c].key), calls[c].id)
               /\ calls[c].op = "remove" => ~isAlready(ItemsOf(calls[c].key), calls[c].id)
               /\ calls[c].op = "rate" => store["ratings"] = calls[c].rsnap

C2_Witness ==
    \E c \in Slots :
        /\ Alone(c) /\ calls[c].op = "add" /\ calls[c].wrote
        /\ calls[c].remoteFailed /\ calls[c].ret = "resolved"
        /\ Len(ItemsOf(calls[c].key)) = 2

\* C3: an add, remove, setRating or clearAll inside which a storage access
\* (read or write) failed rejects to its caller.
C3_StorageFailureRejects ==
    \A c \in Slots :
        (Done(c) /\ calls[c].op \in {"add", "remove", "rate", "clear"} /\ calls[c].fault)
            => calls[c].ret = "rejected"

\* C4: an add of an id that is already a member of the list is a no-op (the
\* stored list is not rewritten, no mirror request is issued), and after an add
\* has resolved the list holds exactly one entry for the id.  Stated of calls
\* whose storage accesses succeed and that no other call overlaps.
C4_AddIdempotent ==
    \A c \in Slots :
        (Clean(c) /\ calls[c].op = "add")
            => /\ isAlready(PreItems(c, calls[c].key), calls[c].id)
                    => /\ store[calls[c].key] = calls[c].pre[calls[c].key]
                       /\ ~calls[c].wrote
                       /\ ~calls[c].mirrored
               /\ calls[c].ret = "resolved"
               /\ Count(ItemsOf(calls[c].key), calls[c].id) = 1

\* the second of two sequential adds of one id has settled
C4_Witness ==
    \E c \in Slots :
        /\ Clean(c) /\ calls[c].op = "add" /\ impl = "async"
        /\ lastAdd.key = calls[c].key /\ lastAdd.id = calls[c].id
        /\ Len(ItemsOf(calls[c].key)) = 1

\* C5: in every reachable state, whatever the interleaving of add, remove,
\* toggle and clearAll calls, each id occurs at most once in each stored list.
C5_NoDuplicateIds ==
    \A key \in ListNames : \A id \in Ids : Count(ItemsOf(key), id) <= 1

\* two overlapping adds of the same id to the same list have both written
C5_Witness ==
    /\ calls[1].key = calls[2].key /\ calls[1].id = calls[2].id
    /\ \A c \in Slots :
        /\ Done(c) /\ calls[c].op = "add" /\ calls[c].overlapped /\ calls[c].wrote
        /\ isAlready(ItemsOf(calls[c].key), calls[c].id)

\* C6: toggleFavorite returns true iff the id was not a favorite immediately
\* before the call, and when it has resolved the membership of the id is the
\* negation of what it was (the other ids keep theirs).  Stated of calls whose
\* storage accesses succeed and that no other call overlaps.
C6_ToggleCorrect ==
    \A c \in Slots :
        (Clean(c) /\ calls[c].op = "toggle")
            => /\ calls[c].ret = "resolved"
               /\ calls[c].retval = ~isAlready(PreItems(c, "favorites"), calls[c].id)
               /\ isAlready(ItemsOf("favorites"), calls[c].id)
                    = ~isAlready(PreItems(c, "favorites"), calls[c].id)
               /\ \A j \in Ids \ {calls[c].id} :
                    isAlready(ItemsOf("favorites"), j) = isAlready(PreItems(c, "favorites"), j)

\* a toggle that found the id among two favorites and removed it
C6_Witness ==
    \E c \in Slots :
        /\ Clean(c) /\ calls[c].op = "toggle" /\ calls[c].retval = FALSE
        /\ Len(PreItems(c, "favorites")) = 2
        /\ Len(ItemsOf("favorites")) = 1

\* a remove of the id that the add returned just before it added, both calls
\* with their storage accesses succeeding and not overlapped
RemoveAfterAdd(c) ==
    /\ Clean(c) /\ calls[c].op = "remove" /\ calls[c].ret = "resolved"
    /\ lastAdd.key = calls[c].key /\ lastAdd.id = calls[c].id

\* C7 as stated: for every prior content of the list, add followed by remove
\* of the same id returns the list to the membership set it had before the add.
C7_AddRemoveRestores ==
    \A c \in Slots :
        RemoveAfterAdd(c) => Range(ItemsOf(calls[c].key)) = lastAdd.pre

\* C7 as amended: add followed by remove of the same id returns the list to its
\* prior membership set when the id was not a member before the add; when it
\* was, the list is left as the prior set without the id.
C7_AddRemoveRestoresNonMember ==
    \A c \in Slots :
        RemoveAfterAdd(c) =>
            Range(ItemsOf(calls[c].key)) = lastAdd.pre \ {calls[c].id}

\* add then remove of an id that was not in a non-empty list
C7_Witness ==
    \E c \in Slots :
        /\ RemoveAfterAdd(c)
        /\ calls[c].id \notin lastAdd.pre
        /\ lastAdd.pre # {}
        /\ calls[c].wrote

\* C8: contains follows the most recent add-or-remove call for the id.  After a
\* resolved add the id is a member, with exactly one entry; after a resolved
\* remove it is not; neither call changes the membership of any other id, and
\* a remove of a non-member leaves the list as it was.  Stated of calls whose
\* storage accesses succeed and that no other call overlaps.
C8_ContainsFollowsLastCall ==
    \A c \in Slots :
        (Clean(c) /\ calls[c].op \in {"add", "remove"})
            => LET key == calls[c].key
                   id == calls[c].id IN
               /\ calls[c].ret = "resolved"
               /\ calls[c].op = "add" =>
                    isAlready(ItemsOf(key), id) /\ Count(ItemsOf(key), id) = 1
               /\ calls[c].op = "remove" => ~isAlready(ItemsOf(key), id)
               /\ \A j \in Ids \ {id} :
                    isAlready(ItemsOf(key), j) = isAlready(PreItems(c, key), j)
               /\ (calls[c].op = "remove" /\ ~isAlready(PreItems(c, key), id))
                    => ItemsOf(key) = PreItems(c, key)

\* a remove that took one of two members out of a list
C8_Witness ==
    \E c \in Slots :
        /\ Clean(c) /\ calls[c].op = "remove"
        /\ Len(PreItems(c, calls[c].key)) = 2
        /\ Len(ItemsOf(calls[c].key)) = 1

\* C9: after a syncWithTMDB whose three remote fetches succeeded, favorites and
\* watchlist hold exactly the fetched results (what was only local is gone) and
\* the sync status is synced = true with a timestamp.  Stated of syncs whose
\* storage writes succeed and that no other call overlaps.
C9_SyncReplaces ==
    \A c \in Slots :
        (Clean(c) /\ calls[c].op = "sync" /\ ~calls[c].remoteFailed)
            => /\ store["favorites"] = Arr(calls[c].tmdb["favorites"])
               /\ store["watchlist"] = Arr(calls[c].tmdb["watchlist"])
               /\ StatusNow.synced = TRUE
               /\ StatusNow.lastSync # NoTimestamp

\* a sync replaced a favorite that the remote account does not hold
C9_Witness ==
    \E c \in Slots :
        /\ Clean(c) /\ calls[c].op = "sync" /\ ~calls[c].remoteFailed
        /\ PreItems(c, "favorites") = <<1>>
        /\ calls[c].tmdb["favorites"] = <<>>
        /\ calls[c].tmdb["watchlist"] # <<>>

\* a sync that took its failure branch: something inside the inner try threw
SyncCaught(c) == Alone(c) /\ calls[c].op = "sync" /\ calls[c].caught

\* C10 as stated: after a failed sync the status is synced = false with the
\* lastSync it had before the attempt.
C10_FailedSyncKeepsLastSync ==
    \A c \in Slots :
        (SyncCaught(c) /\ calls[c].retval)
            => /\ StatusNow.synced = FALSE
               /\ StatusNow.lastSync = PreStatus(c).lastSync

\* C10 as amended: after a sync that took its failure branch and stored the
\* status, the status is synced = false with lastSync null, whatever timestamp
\* an earlier successful sync had left.
C10_FailedSyncResetsLastSync ==
    \A c \in Slots :
        (SyncCaught(c) /\ calls[c].retval)
            => StatusNow = [lastSync |-> NoTimestamp, synced |-> FALSE]

\* a failed sync after a successful one
C10_Witness ==
    \E c \in Slots :
        /\ SyncCaught(c) /\ calls[c].retval
        /\ PreStatus(c).synced /\ PreStatus(c).lastSync # NoTimestamp

RatingNow(id) == getMovieRating(store["ratings"], id, TRUE)
PreRating(c, id) == getMovieRating(calls[c].pre["ratings"], id, TRUE)

\* C11: after a clearAllData that resolved, getFavorites, getWatchlist and
\* getWatched return the empty list and getRating(id) is null for every id,
\* the ids rated before the call included.
C11_ClearAllEmpties ==
    \A c \in Slots :
        (Alone(c) /\ calls[c].op = "clear" /\ calls[c].ret = "resolved")
            => /\ \A key \in ListNames : ItemsOf(key) = <<>>
               /\ \A id \in Ids : RatingNow(id) = NullElem

\* a resolved clearAllData of a store that held a favorite and a rating
C11_Witness ==
    \E c \in Slots :
        /\ Alone(c) /\ calls[c].op = "clear" /\ calls[c].ret = "resolved"
        /\ PreItems(c, "favorites") # <<>>
        /\ \E id \in Ids : PreRating(c, id) # NullElem

\* C12: a clearAllData inside which the removal of some substructure failed
\* rejects; every other substructure is removed all the same and what was
\* removed is not put back (the keys whose removal failed keep their value;
\* the session maps are all cleared before the removals are awaited).
C12_ClearAllPartialFailure ==
    \A c \in Slots :
        (Alone(c) /\ calls[c].op = "clear" /\ calls[c].fault)
            => /\ calls[c].ret = "rejected"
               /\ impl = "async" =>
                    /\ calls[c].failedKeys # {}
                    /\ \A k \in AsyncClearKeys \ calls[c].failedKeys : store[k] = Null
                    /\ \A k \in calls[c].failedKeys : store[k] = calls[c].pre[k]
               /\ impl = "session" => store = SessionStore

\* the removal of the ratings key alone failed: the favorites are gone, the
\* ratings are still stored
C12_Witness ==
    \E c \in Slots :
        /\ Alone(c) /\ calls[c].op = "clear" /\ calls[c].ret = "rejected"
        /\ calls[c].failedKeys = {"ratings"}
        /\ PreItems(c, "favorites") # <<>> /\ ItemsOf("favorites") = <<>>
        /\ \E id \in Ids : PreRating(c, id) # NullElem /\ RatingNow(id) # NullElem

\* C13: add, remove and rateMovie have returned to their caller as soon as the
\* local write is done: no call whose write has been made is still waiting for
\* the outcome of its remote mirror request.
C13_ReturnsAfterLocalWrite ==
    \A c \in Slots :
        (calls[c].op \in {"add", "remove", "rate"} /\ calls[c].wrote) => Done(c)

\* C14: a remote request of MovieService that failed (non-2xx answer or network
\* failure) reaches syncWithTMDB as a rejection: as soon as one of its fetches
\* has failed, the sync is in, or has gone through, its failure branch.
C14_RemoteFailureSurfaces ==
    \A c \in Slots :
        (calls[c].op = "sync" /\ calls[c].remoteFailed)
            => calls[c].pc = "sync_failed" \/ calls[c].caught

\* the empty default of each getter
DefaultOf(key) ==
    IF key \in AsyncListNames THEN Arr(<<>>)
    ELSE IF key = "ratings" THEN Obj(EmptyMap)
    ELSE [k |-> "status", v |-> [lastSync |-> NoTimestamp, synced |-> FALSE]]

\* C15: getFavorites, getWatchlist, getRatings and getSyncStatus never reject;
\* they resolve with the empty default (empty list, empty map, not-synced
\* status) when the key is missing, when the stored text is not valid JSON and
\* when the read fails, and with the stored value otherwise.
C15_ReadsNeverFail ==
    \A c \in Slots :
        (Done(c) /\ calls[c].op = "get")
            => LET stored == calls[c].pre[calls[c].key] IN
               /\ calls[c].ret = "resolved"
               /\ calls[c].rsnap =
                    IF calls[c].fault \/ stored \in {Null, Garbage}
                    THEN DefaultOf(calls[c].key)
                    ELSE stored

\* a getter whose read succeeded found a text that does not parse
C15_Witness ==
    \E c \in Slots :
        /\ Done(c) /\ calls[c].op = "get" /\ ~calls[c].fault
        /\ calls[c].pre[calls[c].key] = Garbage
        /\ calls[c].rsnap = DefaultOf(calls[c].key)

\* the ratings value holds an entry for the id (a property of the map, or an
\* element of the array other than a hole)
HasEntry(item, id) ==
    IF item.k = "map" THEN item.v[id] # Undefined
    ELSE item.k = "arr" /\ id < Len(item.v) /\ item.v[id + 1] # NullElem

\* C16: a setRating(id, b) with b non-zero resolves with getRating(id) = b,
\* whatever rating the id had before (the map holds one value per id), and the
\* rating of every other id is what it was.  Stated of calls whose storage
\* accesses succeed and that no other call overlaps.
C16_RatingOverwrite ==
    \A c \in Slots :
        (Clean(c) /\ calls[c].op = "rate" /\ calls[c].val # 0)
            => /\ calls[c].ret = "resolved"
               /\ RatingNow(calls[c].id) = NumElem(calls[c].val)
               /\ \A j \in Ids \ {calls[c].id} : RatingNow(j) = PreRating(c, j)

\* a second setRating of an id, with another value, while another id is rated
C16_Witness ==
    \E c \in Slots :
        /\ Clean(c) /\ calls[c].op = "rate" /\ calls[c].val # 0
        /\ PreRating(c, calls[c].id) \in {NumElem(r) : r \in Ratings \ {0, calls[c].val}}
        /\ \E j \in Ids \ {calls[c].id} : RatingNow(j) # NullElem

\* C17: after setRating(id, 0) getRating(id) returns null, as for an id that
\* was never rated, although the ratings still hold an entry for the id.
\* Stated of calls whose storage accesses succeed and that no other call
\* overlaps.
C17_ZeroRatingIsAbsent ==
    \A c \in Slots :
        (Clean(c) /\ calls[c].op = "rate" /\ calls[c].val = 0)
            => /\ calls[c].ret = "resolved"
               /\ RatingNow(calls[c].id) = NullElem
               /\ RatingNow(calls[c].id) = getMovieRating(Null, calls[c].id, TRUE)
               /\ HasEntry(store["ratings"], calls[c].id)

\* setRating(id, 0) of an id that had a rating
C17_Witness ==
    \E c \in Slots :
        /\ Clean(c) /\ calls[c].op = "rate" /\ calls[c].val = 0
        /\ PreRating(c, calls[c].id) # NullElem
        /\ HasEntry(store["ratings"], calls[c].id)

\* C18: removeRating(id) is a local delete: when it has resolved the id has no
\* entry and getRating(id) is null, every other id keeps its entry, nothing
\* but the rating map has changed, no remote request was made, and a
\* removeRating of an id without entry (such as a second one) changes nothing.
C18_RemoveRatingIdempotent ==
    \A c \in Slots :
        (Clean(c) /\ calls[c].op = "unrate")
            => /\ calls[c].ret = "resolved"
               /\ ~HasEntry(store["ratings"], calls[c].id)
               /\ RatingNow(calls[c].id) = NullElem
               /\ \A j \in Ids \ {calls[c].id} :
                    store["ratings"].v[j] = calls[c].pre["ratings"].v[j]
               /\ \A k \in Keys \ {"ratings"} : store[k] = calls[c].pre[k]
               /\ ~calls[c].mirrored /\ ~calls[c].remoteFailed
               /\ ~HasEntry(calls[c].pre["ratings"], calls[c].id) => store = calls[c].pre

\* removeRating of a rated id while another id is rated
C18_Witness ==
    \E c \in Slots :
        /\ Clean(c) /\ calls[c].op = "unrate"
        /\ PreRating(c, calls[c].id) # NullElem
        /\ \E j \in Ids \ {calls[c].id} : RatingNow(j) # NullElem

\* C19: the lists and the rating map are independent.  An add, remove or
\* toggle on one list leaves the other lists and the rating map as they were;
\* setRating and removeRating leave the three lists as they were; and an id can
\* be a member of several lists at once.  Stated of calls that no other call
\* overlaps, storage failures included.
C19_ListsIndependent ==
    \A c \in Slots :
        Alone(c) =>
            /\ calls[c].op \in {"add", "remove", "toggle"} =>
                    \A k \in (ListNames \cup {"ratings"}) \ {calls[c].key} :
                        store[k] = calls[c].pre[k]
            /\ calls[c].op \in {"rate", "unrate"} =>
                    \A k \in ListNames : store[k] = calls[c].pre[k]

\* an id that was a favorite and in the watchlist has been added to the
\* watched list and is now a member of all three
C19_Witness ==
    \E c \in Slots :
        /\ Alone(c) /\ calls[c].op = "add" /\ calls[c].key = "watched" /\ calls[c].wrote
        /\ \A k \in ListNames : isAlready(ItemsOf(k), calls[c].id)

\* C20: every item getFavorites returns has isFavorite = true, isInWatchlist =
\* false and isWatched = false, also when its id is in the watchlist or the
\* watched list; likewise getWatchlist sets only isInWatchlist and getWatched
\* only isWatched.  The items are the members of the list, in order.
C20_AnnotationsPerList ==
    impl = "session" =>
        \A key \in ListNames :
            LET got == getAnnotated(key, store) IN
            /\ Len(got) = Len(ItemsOf(key))
            /\ \A j \in 1..Len(got) :
                /\ got[j].id = ItemsOf(key)[j]
                /\ got[j].isFavorite = (key = "favorites")
                /\ got[j].isInWatchlist = (key = "watchlist")
                /\ got[j].isWatched = (key = "watched")

\* an id is a favorite, in the watchlist and watched: each getter returns it
\* with its own flag only
C20_Witness ==
    /\ impl = "session"
    /\ \E id \in Ids : \A key \in ListNames :
        /\ isAlready(ItemsOf(key), id)
        /\ \E j \in 1..Len(getAnnotated(key, store)) :
            getAnnotated(key, store)[j] =
                [id |-> id, isFavorite |-> (key = "favorites"),
                 isInWatchlist |-> (key = "watchlist"), isWatched |-> (key = "watched")]

\* C21: func runs only once the delay has elapsed with no further invocation.
\* In a burst of invocations of one debounced function, each less than the
\* delay after the previous one, func has not run while the delay since the
\* last invocation is still running, and once it has elapsed func has run
\* exactly once, with the arguments of the last invocation.
C21_DebounceRunsOnceWithLastArgs ==
    (ui.screen = "debounce" /\ ui.invoked > 0)
        => /\ ui.now < ui.lastAt + Delay => ui.ran = <<>>
           /\ (ui.now >= ui.lastAt + Delay /\ NoneDue) => ui.ran = <<ui.lastArgs>>
           /\ Len(ui.ran) <= 1

\* a burst of three invocations, the last with other arguments than the ones
\* before it, has run func
C21_Witness ==
    /\ ui.screen = "debounce" /\ ui.invoked = 3
    /\ ui.ran = <<"abc">> /\ ui.lastArgs = "abc"
    /\ ui.nextId = 4

\* two calls of one operation that overlapped and have both settled, every
\* storage access inside them succeeding
BothSettled(op) ==
    \A c \in Slots :
        /\ Done(c) /\ calls[c].op = op /\ calls[c].overlapped
        /\ ~calls[c].fault /\ calls[c].ret = "resolved"

\* C22: when two overlapping toggleFavorite calls on one id have read the same
\* prior membership, both return the same boolean, the negation of that
\* membership; the stored list is the list one of them wrote; and the
\* membership of the id ends up flipped once, not twice.
C22_OverlappingTogglesFlipOnce ==
    (BothSettled("toggle") /\ calls[1].id = calls[2].id
        /\ calls[1].retval = calls[2].retval)
        => LET id == calls[1].id IN
           /\ calls[1].retval = ~isAlready(PreItems(1, "favorites"), id)
           /\ \E c \in Slots : calls[c].wrote /\ store["favorites"] = Arr(calls[c].snap)
           /\ isAlready(ItemsOf("favorites"), id) = ~isAlready(PreItems(1, "favorites"), id)

\* two overlapping toggles of a favorite both returned false and both wrote
\* the list without it
C22_Witness ==
    /\ BothSettled("toggle") /\ calls[1].id = calls[2].id
    /\ calls[1].retval = FALSE /\ calls[2].retval = FALSE
    /\ calls[1].wrote /\ calls[2].wrote
    /\ Len(PreItems(1, "favorites")) = 2
    /\ Len(ItemsOf("favorites")) = 1

\* C23: an add that had completed when an overlapping syncWithTMDB wrote the
\* add's list is overwritten: the list is then what the sync fetched, and the
\* added id is a member only if the fetched result contains it.
C23_SyncOverwritesAdd ==
    \A c \in Slots : \A d \in calls[c].overwrote :
        (calls[c].op = "sync" /\ Done(d) /\ calls[d].op = "add")
            => /\ store[calls[d].key] = Arr(calls[c].tmdb[calls[d].key])
               /\ isAlready(ItemsOf(calls[d].key), calls[d].id)
                    = (calls[d].id \in Range(calls[c].tmdb[calls[d].key]))

\* a sync whose fetched favorites are empty has overwritten a completed add
C23_Witness ==
    \E c \in Slots : \E d \in calls[c].overwrote :
        /\ calls[c].op = "sync" /\ Done(c) /\ ~calls[c].remoteFailed /\ ~calls[c].fault
        /\ Done(d) /\ calls[d].op = "add" /\ calls[d].overlapped
        /\ calls[d].key = "favorites"
        /\ ~isAlready(ItemsOf("favorites"), calls[d].id)
        /\ calls[c].tmdb["watchlist"] # <<>>

\* two overlapping adds of different ids to one list
TwoAdds ==
    /\ BothSettled("add")
    /\ calls[1].key = calls[2].key /\ calls[1].id # calls[2].id

\* C25 as stated: when two overlapping adds of different ids to one list have
\* both completed, both ids are members of the list.
C25_NoAddLost ==
    TwoAdds => \A c \in Slots : isAlready(ItemsOf(calls[c].key), calls[c].id)

\* C25 as amended: when two overlapping adds of different ids to one list have
\* both completed, the stored list is the list one of them read and extended
\* by its id (the later write wins): that id is a member, the other id only
\* if that call read the list after the other's write.
C25_LastAddWins ==
    TwoAdds =>
        \E c \in Slots :
            /\ store[calls[c].key] = Arr(calls[c].snap)
            /\ isAlready(ItemsOf(calls[c].key), calls[c].id)
            /\ \A d \in Slots \ {c} :
                isAlready(ItemsOf(calls[d].key), calls[d].id)
                    = isAlready(calls[c].snap, calls[d].id)

\* both adds read the list before either wrote: one id is lost
C25_Witness ==
    /\ TwoAdds
    /\ \A c \in Slots : calls[c].wrote
    /\ \E c \in Slots : ~isAlready(ItemsOf(calls[c].key), calls[c].id)
    /\ PreItems(1, calls[1].key) = <<>>

\* C24: fetchFromAPI never rejects.  When no bearer token is configured (no
\* request is sent), when the response is not ok and when fetch or the JSON
\* decoding throws, it resolves with the mock data of the endpoint's category,
\* which is {results: []} for an endpoint of no category; a decoded 2xx answer
\* is returned as it is.
C24_FetchNeverRejects ==
    (ui.screen = "fetch" /\ ui.requests > 0)
        => /\ ~ui.got.threw
           /\ ui.got.sent = (ui.resp.out # "no_token")
           /\ ui.resp.out = "ok" => ui.got.mock = "none" /\ ui.got.results = ui.resp.results
           /\ ui.resp.out # "ok" =>
                /\ ui.got.mock =
                      IF ui.endpoint \in {"popular", "trending", "top_rated", "now_playing",
                                          "upcoming", "search"} THEN "page"
                      ELSE IF ui.endpoint \in {"genres", "credits"} THEN ui.endpoint
                      ELSE "results"
                /\ ui.endpoint \in {"details", "reviews", "videos", "account"}
                      => ui.got.results = <<>>

\* an account request made without bearer token resolved with {results: []}
C24_Witness ==
    /\ ui.screen = "fetch" /\ ui.requests > 0
    /\ ui.endpoint = "account" /\ ui.resp.out = "no_token"
    /\ ~ui.got.threw /\ ~ui.got.sent
    /\ ui.got.mock = "results" /\ ui.got.results = <<>>

\* what C26 asks of a settled add or rateMovie: nothing stored under its key
\* before the call is missing after it
KeepsEntries(c) ==
    /\ calls[c].op = "add" =>
            Range(PreItems(c, calls[c].key)) \subseteq Range(ItemsOf(calls[c].key))
    /\ calls[c].op = "rate" =>
            \A j \in Ids \ {calls[c].id} :
                PreRating(c, j) # NullElem => RatingNow(j) = PreRating(c, j)

\* C26: after an addToFavorites, addToWatchlist or rateMovie has completed,
\* every item (rating) stored under its key before the call is still stored,
\* also when the storage read inside the call failed.
C26_NoEntryDropped ==
    \A c \in Slots :
        (Alone(c) /\ calls[c].op \in {"add", "rate"} /\ calls[c].ret = "resolved")
            => KeepsEntries(c)

\* C27: in every reachable state the value under the ratings key is a map from
\* movie id to numeric rating (or the key is not set), so that getMovieRating
\* returns null or a number that was set as a rating.
C27_RatingsIsMap ==
    /\ store["ratings"].k \in {"null", "map"}
    /\ \A id \in Ids : RatingNow(id) \in {NullElem} \cup {NumElem(r) : r \in Ratings}

\* C28: while the My List screen is mounted its isMounted guard is true, and
\* once the loadMyList started by the last change of filter has resolved, the
\* displayed movies are the contents of the list selected.
C28_FilterChangeShowsList ==
    (ui.screen = "profile" /\ ui.mounted)
        => /\ ui.isMounted
           /\ ui.load = "none" => ui.movies = movieList(ui.activeFilter, store)

\* C29: once no debounce timer is pending and every search in flight has
\* resolved, the results displayed for a query of at least 2 characters are
\* the results of that query (what the catalogue finds, or the mock page when
\* the request failed), never those of an older query.
C29_ResultsOfLatestQuery ==
    (ui.screen = "search" /\ ui.isMounted /\ ui.timers = {} /\ ui.inFlight = {}
        /\ QueryLength[ui.searchQuery] >= 2)
        => ui.searchResults \in {Matches[ui.searchQuery], getMockData("search").results}

\* C30: of a burst of changes of the query, each less than 300 ms after the
\* one before, searchMovies is called at most once, with the final query: the
\* searches made since the burst began are none, or one for the current query.
C30_OneSearchPerBurst ==
    ui.screen = "search"
        => /\ Len(ui.searched) <= 1
           /\ \A j \in 1..Len(ui.searched) : ui.searched[j] = ui.searchQuery

====
